---- MODULE Spec2Model ----
(***************************************************************************)
(* psp-manager: the PARAM.SFO decoder (utils.parse_sfo) and the batch      *)
(* renaming loop that calls it (main.rename_files).                        *)
(*                                                                         *)
(* Bytes are naturals 0..255, byte strings are sequences of bytes, Python  *)
(* str values are sequences of code points.  A Python value is a record    *)
(* [kind, s, n] with kind in {"str", "int", "none"}.                       *)
(***************************************************************************)
EXTENDS Integers, Sequences, FiniteSets, TLC

\* ------------------------------------------------------------------ bounds
MaxParams == 2
MaxTail == 5
MaxRest == 1
MaxBatch == 3

\* ------------------------------------------------- constants of the program
HeaderLen == 20
RecLen == 16
T_UTF8S == 516
T_UTF8 == 4
T_INT == 1028

\* "SFO File Signature", "SFO File Version", "TITLE", ".iso" as code points
SigKey == <<83, 70, 79, 32, 70, 105, 108, 101, 32, 83, 105, 103, 110, 97, 116, 117, 114, 101>>
VerKey == <<83, 70, 79, 32, 70, 105, 108, 101, 32, 86, 101, 114, 115, 105, 111, 110>>
TITLE == <<84, 73, 84, 76, 69>>
IsoExt == <<46, 105, 115, 111>>

\* ------------------------------------------------------------ Python values
StrVal(s) == [kind |-> "str", s |-> s, n |-> 0]
IntVal(n) == [kind |-> "int", s |-> <<>>, n |-> n]
NoneVal == [kind |-> "none", s |-> <<>>, n |-> 0]

Min(a, b) == IF a < b THEN a ELSE b
Max(a, b) == IF a > b THEN a ELSE b

\* bytes[a:b] of Python (0-based, half open), clamped like a slice
Slice(b, from, to) ==
  LET lo == Min(Max(from, 0), Len(b))
      hi == Min(Max(to, lo), Len(b))
  IN  SubSeq(b, lo + 1, hi)

\* ------------------------------------------------------ struct pack / unpack
\* little-endian unsigned integer of a byte run (struct's "<H", "<I")
RECURSIVE LE(_)
LE(b) == IF b = <<>> THEN 0 ELSE b[1] + 256 * LE(Tail(b))

RECURSIVE PackLE(_, _)
PackLE(x, w) == IF w = 0 THEN <<>> ELSE <<x % 256>> \o PackLE(x \div 256, w - 1)

\* mutant: a buffer shorter than the format is unpacked all the same
StructSizeAtMost(raw, size) == Len(raw) <= size

\* struct.unpack raises struct.error unless the buffer has exactly the size
StructSizeOk(raw, size) == Len(raw) = size

\* struct.unpack("<4s4BIII", header_raw)
UnpackHeader(raw) ==
  [magic            |-> Slice(raw, 0, 4),
   ver              |-> Slice(raw, 4, 8),
   name_table_start |-> LE(Slice(raw, 8, 12)),
   data_table_start |-> LE(Slice(raw, 12, 16)),
   n_params         |-> LE(Slice(raw, 16, 20))]

PackHeader(magic, ver, nts, dts, n) ==
  magic \o ver \o PackLE(nts, 4) \o PackLE(dts, 4) \o PackLE(n, 4)

\* struct.unpack("<HHIII", def_rec_raw): a 5-tuple
UnpackRecord(raw) ==
  <<LE(Slice(raw, 0, 2)), LE(Slice(raw, 2, 4)), LE(Slice(raw, 4, 8)),
    LE(Slice(raw, 8, 12)), LE(Slice(raw, 12, 16))>>

PackRecord(off, type, len, cap, voff) ==
  PackLE(off, 2) \o PackLE(type, 2) \o PackLE(len, 4) \o PackLE(cap, 4) \o PackLE(voff, 4)

\* ------------------------------------------------------------ bytes.decode
IsCont(b) == b >= 128 /\ b <= 191

\* strict UTF-8: [ok, s] with s the code points
RECURSIVE Utf8Decode(_)
Utf8Decode(b) ==
  IF b = <<>> THEN [ok |-> TRUE, s |-> <<>>]
  ELSE
    LET b1 == b[1]
        n  == Len(b)
        width ==
          IF b1 < 128 THEN 1
          ELSE IF b1 >= 194 /\ b1 <= 223 /\ n >= 2 /\ IsCont(b[2]) THEN 2
          ELSE IF b1 >= 224 /\ b1 <= 239 /\ n >= 3 /\ IsCont(b[2]) /\ IsCont(b[3])
                  /\ (b1 = 224 => b[2] >= 160) /\ (b1 = 237 => b[2] <= 159) THEN 3
          ELSE IF b1 >= 240 /\ b1 <= 244 /\ n >= 4 /\ IsCont(b[2]) /\ IsCont(b[3])
                  /\ IsCont(b[4])
                  /\ (b1 = 240 => b[2] >= 144) /\ (b1 = 244 => b[2] <= 143) THEN 4
          ELSE 0
        cp ==
          CASE width = 1 -> b1
            [] width = 2 -> (b1 - 192) * 64 + (b[2] - 128)
            [] width = 3 -> (b1 - 224) * 4096 + (b[2] - 128) * 64 + (b[3] - 128)
            [] width = 4 -> (b1 - 240) * 262144 + (b[2] - 128) * 4096
                            + (b[3] - 128) * 64 + (b[4] - 128)
            [] OTHER -> 0
    IN  IF width = 0 THEN [ok |-> FALSE, s |-> <<>>]
        ELSE LET rest == Utf8Decode(SubSeq(b, width + 1, n))
             IN  IF rest.ok THEN [ok |-> TRUE, s |-> <<cp>> \o rest.s]
                 ELSE [ok |-> FALSE, s |-> <<>>]

\* str.rstrip("\x00")
RECURSIVE RstripNul(_)
RstripNul(s) ==
  IF s # <<>> /\ s[Len(s)] = 0 THEN RstripNul(SubSeq(s, 1, Len(s) - 1)) ELSE s

\* str(h) of a non-negative integer, as code points
RECURSIVE IntToStr(_)
IntToStr(x) ==
  IF x < 10 THEN <<48 + x>> ELSE IntToStr(x \div 10) \o <<48 + (x % 10)>>

\* ".".join([str(h) for h in header[1:5]])
RECURSIVE JoinDot(_)
JoinDot(parts) ==
  IF parts = <<>> THEN <<>>
  ELSE IF Len(parts) = 1 THEN IntToStr(parts[1])
  ELSE IntToStr(parts[1]) \o <<46>> \o JoinDot(Tail(parts))

\* ---------------------------------------------- the 0x0404 integer decoding
\* value_raw[::-1]
RECURSIVE Reverse(_)
Reverse(b) == IF b = <<>> THEN <<>> ELSE Reverse(Tail(b)) \o <<b[1]>>

HexDigit(d) == IF d < 10 THEN 48 + d ELSE 87 + d

\* binascii.hexlify(...).decode("utf-8"): two lower-case hex digits per byte
RECURSIVE Hexlify(_)
Hexlify(b) ==
  IF b = <<>> THEN <<>>
  ELSE <<HexDigit(b[1] \div 16), HexDigit(b[1] % 16)>> \o Hexlify(Tail(b))

HexVal(c) == IF c >= 97 THEN c - 87 ELSE c - 48

\* int(value_ascii, 16) on a string of hex digits; the empty string is a
\* ValueError
RECURSIVE HexParse(_)
HexParse(s) ==
  IF s = <<>> THEN 0 ELSE 16 * HexParse(SubSeq(s, 1, Len(s) - 1)) + HexVal(s[Len(s)])

IntFromBytes(value_raw) ==
  LET value_ascii == Hexlify(Reverse(value_raw))
  IN  IF value_ascii = <<>> THEN [ok |-> FALSE, n |-> 0]
      ELSE [ok |-> TRUE, n |-> HexParse(value_ascii)]

\* mutant: a type outside the three known ones is an error
DecodeValueStrict(v_type, value_raw) ==
  IF v_type \in {T_UTF8S, T_UTF8}
  THEN LET d == Utf8Decode(value_raw)
       IN  IF d.ok THEN [exc |-> "", value |-> StrVal(RstripNul(d.s))]
           ELSE [exc |-> "UnicodeDecodeError", value |-> NoneVal]
  ELSE IF v_type = T_INT
  THEN LET i == IntFromBytes(value_raw)
       IN  IF i.ok THEN [exc |-> "", value |-> IntVal(i.n)]
           ELSE [exc |-> "ValueError", value |-> NoneVal]
  ELSE [exc |-> "ValueError", value |-> NoneVal]

\* the type dispatch of parse_sfo: [exc, value], exc = "" when none is raised
DecodeValue(v_type, value_raw) ==
  IF v_type \in {T_UTF8S, T_UTF8}
  THEN LET d == Utf8Decode(value_raw)
       IN  IF d.ok THEN [exc |-> "", value |-> StrVal(RstripNul(d.s))]
           ELSE [exc |-> "UnicodeDecodeError", value |-> NoneVal]
  ELSE IF v_type = T_INT
  THEN LET i == IntFromBytes(value_raw)
       IN  IF i.ok THEN [exc |-> "", value |-> IntVal(i.n)]
           ELSE [exc |-> "ValueError", value |-> NoneVal]
  ELSE [exc |-> "", value |-> NoneVal]

\* ------------------------------------------------------------ dict(zip(..))
\* a dict is a sequence of <<key, value>> pairs in insertion order
HasKey(d, k) == \E i \in 1..Len(d) : d[i][1] = k

DictSet(d, k, v) ==
  IF HasKey(d, k)
  THEN [i \in 1..Len(d) |-> IF d[i][1] = k THEN <<k, v>> ELSE d[i]]
  ELSE Append(d, <<k, v>>)

RECURSIVE DictZipFrom(_, _, _, _)
DictZipFrom(d, names, values, i) ==
  IF i > Len(names) \/ i > Len(values) THEN d
  ELSE DictZipFrom(DictSet(d, names[i], values[i]), names, values, i + 1)

DictZip(names, values) == DictZipFrom(<<>>, names, values, 1)

\* dict.get(param)
DictGet(d, k) ==
  IF HasKey(d, k) THEN d[CHOOSE i \in 1..Len(d) : d[i][1] = k][2] ELSE NoneVal

\* -------------------------------------------------------------------- state
VARIABLES
  file,            \* bytes of the PARAM.SFO file determined so far
  eof,             \* TRUE when the file is known to end at Len(file)
  pos,             \* read cursor of sfo_file
  pc,              \* position inside parse_sfo
  exc,             \* the exception parse_sfo raised ("" when none)
  param,           \* parse_sfo's argument
  header,          \* the unpacked header
  def_table, param_names, param_values,
  e,               \* loop index of the three for-loops
  sfo_data, result,
  items,           \* rename_files' argument
  isos, i,         \* the filtered batch and the index of the current ISO
  rpc,             \* position inside rename_files
  title, sanitized_title, new_file_name,
  log,             \* the logging calls made, in order
  renamed,         \* indices of the ISOs os.rename has renamed
  rexc             \* the exception rename_files raised ("" when none)

pvars == <<file, eof, pos, pc, exc, param, header, def_table, param_names,
           param_values, e, sfo_data, result>>
rvars == <<items, isos, i, rpc, title, sanitized_title, new_file_name, log, renamed,
           rexc>>
vars == <<pvars, rvars>>

NoHeader == [magic |-> <<>>, ver |-> <<>>, name_table_start |-> 0,
             data_table_start |-> 0, n_params |-> 0]

\* ------------------------------------------------------ the input domains
Alphabet == {0, 65, 255}
Magics == {<<0, 80, 83, 70>>, <<255, 80, 83, 70>>}
Versions == {<<1, 1, 0, 0>>}
Paddings == {-1, 0, 1}
NameTableSizes == {-1, 2}
NameOffsets == {0, 1}
ValueTypes == {T_UTF8S, T_UTF8, T_INT, 65535}
\* <<value_len, value_capacity>> of an entry
ValueSizes == {<<0, 0>>, <<1, 2>>}
Params == {TITLE}

\* headers whose name table starts p bytes after the index table and is nb
\* bytes long
Headers ==
  { PackHeader(m, v, HeaderLen + RecLen * n + p, HeaderLen + RecLen * n + p + nb, n) :
      m \in Magics, v \in Versions, n \in 0..MaxParams, p \in Paddings,
      nb \in NameTableSizes }

Records ==
  { PackRecord(off, t, sz[1], sz[2], 0) :
      off \in NameOffsets, t \in ValueTypes, sz \in ValueSizes }

Prefixes(S, k) == { SubSeq(b, 1, m) : b \in S, m \in 0..k }

\* byte runs of length at most k over the alphabet
Runs(k) == UNION { [1..m -> Alphabet] : m \in 0..k }

\* bytes of the file after the index table that are already determined
TailUsed == Max(Len(file) - HeaderLen - RecLen * header.n_params, 0)

\* ---------------------------------------------------------- sfo_file.read
\* The outcomes of sfo_file.read(k), k >= -1: [data, file, eof].  Bytes the
\* file has not yet been seen to hold are drawn from cands (k bytes, or
\* fewer when the file ends there); with ends, the file may also end right
\* after the k bytes.
ReadResults(k, cands, ends) ==
  IF eof \/ (k >= 0 /\ pos + k <= Len(file))
  THEN LET hi == IF k < 0 THEN Len(file) ELSE Min(pos + k, Len(file))
       IN  {[data |-> SubSeq(file, pos + 1, hi), file |-> file, eof |-> eof]}
  ELSE LET known == SubSeq(file, pos + 1, Len(file))
           short(c) == k < 0 \/ Len(known) + Len(c) < k
           fits == { x \in cands : k < 0 \/ Len(known) + Len(x) <= k }
       IN  UNION { { [data |-> known \o c, file |-> file \o c, eof |-> b] :
                       b \in (IF short(c) THEN {TRUE}
                              ELSE IF ends THEN BOOLEAN ELSE {FALSE}) } :
                   c \in fits }

\* BufferedReader.read(k) raises ValueError for k < -1
ReadArgOk(k) == k >= -1

\* the file holds at most MaxTail bytes after the index table, and at most
\* MaxRest bytes where a read to the end of the file meets them
TailCands(k) ==
  LET room == Max(MaxTail - TailUsed, 0)
  IN  Runs(IF k < 0 THEN Min(MaxRest, room) ELSE Min(k, room))

\* the padding between the index table and the name table holds zero bytes
PadCands(k) ==
  LET room == Max(MaxTail - TailUsed, 0)
  IN  { [j \in 1..m |-> 0] : m \in 0..Min(k, room) }

\* ---------------------------------------------------------------- parse_sfo
Raise(x) == pc' = "raised" /\ exc' = x

\* mutant: every name is taken to run to the end of the name table
NameLenToEnd(table, k, name_table_bytes) == name_table_bytes - table[k + 1][1]

\* p_name_bytes of entry e (0-based); def_table[e + 1] raising IndexError
\* selects the last entry's formula
NameLen(table, k, name_table_bytes) ==
  IF k + 1 < Len(table) THEN table[k + 2][1] - table[k + 1][1]
  ELSE name_table_bytes - table[k + 1][1]

\* mutant: the read length is value_len, the third field
ValueReadLenThird(rec) == rec[3]

\* v_total = def_table[e][3]
ValueReadLen(rec) == rec[4]

\* mutant: the assertion is dropped
PaddingUnchecked(def_table_padding) == TRUE

\* assert def_table_padding >= 0
PaddingOk(def_table_padding) == def_table_padding >= 0

DefTablePadding(h) == h.name_table_start - HeaderLen - RecLen * h.n_params

ApplyRead(r) ==
  /\ file' = r.file
  /\ eof' = r.eof
  /\ pos' = pos + Len(r.data)

\* lines 164-170
ReadHeader ==
  /\ pc = "header"
  /\ \E r \in ReadResults(HeaderLen, Prefixes(Headers, HeaderLen), TRUE) :
       /\ ApplyRead(r)
       /\ IF ~StructSizeOk(r.data, HeaderLen)
          THEN /\ Raise("struct.error")
               /\ UNCHANGED <<header, param_names, param_values>>
          ELSE LET h == UnpackHeader(r.data)
                   sig == Utf8Decode(h.magic)
               IN  /\ header' = h
                   /\ param_names' = <<SigKey, VerKey>>
                   /\ IF ~sig.ok
                      THEN Raise("UnicodeDecodeError") /\ param_values' = <<>>
                      ELSE /\ param_values' = <<StrVal(sig.s), StrVal(JoinDot(h.ver))>>
                           /\ pc' = "layout"
                           /\ exc' = exc
  /\ UNCHANGED <<param, def_table, e, sfo_data, result, rvars>>

\* lines 172-182
CheckLayout ==
  /\ pc = "layout"
  /\ IF PaddingOk(DefTablePadding(header))
     THEN /\ pc' = IF header.n_params > 0 THEN "def_table" ELSE "padding"
          /\ exc' = exc
     ELSE Raise("AssertionError")
  /\ def_table' = <<>>
  /\ e' = 0
  /\ UNCHANGED <<file, eof, pos, param, header, param_names, param_values,
                 sfo_data, result, rvars>>

\* lines 183-186, one iteration
ReadDefRecord ==
  /\ pc = "def_table"
  /\ e < header.n_params
  /\ \E r \in ReadResults(RecLen, Prefixes(Records, RecLen), FALSE) :
       /\ ApplyRead(r)
       /\ IF ~StructSizeOk(r.data, RecLen)
          THEN Raise("struct.error") /\ UNCHANGED <<def_table, e>>
          ELSE /\ def_table' = Append(def_table, UnpackRecord(r.data))
               /\ e' = IF e + 1 < header.n_params THEN e + 1 ELSE 0
               /\ pc' = IF e + 1 < header.n_params THEN "def_table" ELSE "padding"
               /\ exc' = exc
  /\ UNCHANGED <<param, header, param_names, param_values, sfo_data, result, rvars>>

\* line 188
SkipPadding ==
  /\ pc = "padding"
  /\ \E r \in ReadResults(DefTablePadding(header), PadCands(DefTablePadding(header)), FALSE) :
       ApplyRead(r)
  /\ pc' = IF header.n_params > 0 THEN "names" ELSE "return"
  /\ UNCHANGED <<exc, param, header, def_table, param_names, param_values, e,
                 sfo_data, result, rvars>>

\* lines 190-196, one iteration
ReadName ==
  /\ pc = "names"
  /\ e < header.n_params
  /\ LET p_name_bytes ==
           NameLen(def_table, e, header.data_table_start - header.name_table_start)
     IN  IF ~ReadArgOk(p_name_bytes)
         THEN Raise("ValueError") /\ UNCHANGED <<file, eof, pos, param_names, e>>
         ELSE \E r \in ReadResults(p_name_bytes, TailCands(p_name_bytes), FALSE) :
                /\ ApplyRead(r)
                /\ LET d == Utf8Decode(r.data)
                   IN  IF ~d.ok
                       THEN Raise("UnicodeDecodeError") /\ UNCHANGED <<param_names, e>>
                       ELSE /\ param_names' = Append(param_names, RstripNul(d.s))
                            /\ e' = IF e + 1 < header.n_params THEN e + 1 ELSE 0
                            /\ pc' = IF e + 1 < header.n_params THEN "names" ELSE "values"
                            /\ exc' = exc
  /\ UNCHANGED <<param, header, def_table, param_values, sfo_data, result, rvars>>

\* lines 198-211, one iteration
ReadValue ==
  /\ pc = "values"
  /\ e < header.n_params
  /\ LET v_type == def_table[e + 1][2]
         v_total == ValueReadLen(def_table[e + 1])
     IN  \E r \in ReadResults(v_total, TailCands(v_total), FALSE) :
           /\ ApplyRead(r)
           /\ LET d == DecodeValue(v_type, r.data)
              IN  IF d.exc # ""
                  THEN Raise(d.exc) /\ UNCHANGED <<param_values, e>>
                  ELSE /\ param_values' = Append(param_values, d.value)
                       /\ e' = IF e + 1 < header.n_params THEN e + 1 ELSE 0
                       /\ pc' = IF e + 1 < header.n_params THEN "values" ELSE "return"
                       /\ exc' = exc
  /\ UNCHANGED <<param, header, def_table, param_names, sfo_data, result, rvars>>

\* lines 213-214
Return ==
  /\ pc = "return"
  /\ sfo_data' = DictZip(param_names, param_values)
  /\ result' = DictGet(sfo_data', param)
  /\ pc' = "done"
  /\ UNCHANGED <<file, eof, pos, exc, param, header, def_table, param_names,
                 param_values, e, rvars>>

ParseStep ==
  \/ ReadHeader
  \/ CheckLayout
  \/ ReadDefRecord
  \/ SkipPadding
  \/ ReadName
  \/ ReadValue
  \/ Return

\* the locals of a fresh call of parse_sfo on a file
ParseLocals(f, known, p) ==
  /\ file = f
  /\ eof = known
  /\ pos = 0
  /\ pc = "header"
  /\ exc = ""
  /\ param = p
  /\ header = NoHeader
  /\ def_table = <<>>
  /\ param_names = <<>>
  /\ param_values = <<>>
  /\ e = 0
  /\ sfo_data = <<>>
  /\ result = NoneVal

\* parse_sfo called on its own, on a file of unconstrained content
InitParse ==
  /\ \E p \in Params : ParseLocals(<<>>, FALSE, p)
  /\ items = <<>>
  /\ isos = <<>>
  /\ i = 0
  /\ rpc = "none"
  /\ title = NoneVal
  /\ sanitized_title = NoneVal
  /\ new_file_name = NoneVal
  /\ log = <<>>
  /\ renamed = {}
  /\ rexc = ""

NextParse == ParseStep

SpecParse == InitParse /\ [][NextParse]_vars

\* --------------------------------------------------------- sanitize_filename
InvalidChars == {60, 62, 58, 34, 47, 92, 124, 63, 42}

\* str.isspace() of one character
IsSpace(c) ==
  c \in (9..13) \cup (28..32) \cup {133, 160, 5760} \cup (8192..8202)
        \cup {8232, 8233, 8239, 8287, 12288}

\* re.sub(r'[<>:"/\\|?*]', "", filename)
RemoveInvalid(s) == SelectSeq(s, LAMBDA c : c \notin InvalidChars)

\* str.strip()
RECURSIVE Lstrip(_)
Lstrip(s) == IF s # <<>> /\ IsSpace(s[1]) THEN Lstrip(Tail(s)) ELSE s

RECURSIVE Rstrip(_)
Rstrip(s) ==
  IF s # <<>> /\ IsSpace(s[Len(s)]) THEN Rstrip(SubSeq(s, 1, Len(s) - 1)) ELSE s

\* " ".join(s.split()): runs of whitespace become one space, none at the ends
RECURSIVE Collapse(_)
Collapse(s) ==
  LET t == Lstrip(s)
  IN  IF t = <<>> THEN <<>>
      ELSE IF Len(t) >= 2 /\ IsSpace(t[2])
           THEN LET rest == Collapse(Tail(t))
                IN  IF rest = <<>> THEN <<t[1]>> ELSE <<t[1], 32>> \o rest
           ELSE <<t[1]>> \o (IF Len(t) >= 2 /\ ~IsSpace(t[2])
                             THEN Collapse(Tail(t)) ELSE <<>>)

\* str.rstrip(".")
RECURSIVE RstripDot(_)
RstripDot(s) ==
  IF s # <<>> /\ s[Len(s)] = 46 THEN RstripDot(SubSeq(s, 1, Len(s) - 1)) ELSE s

\* "if not filename": None, "" and 0 are falsy
Falsy(v) ==
  \/ v.kind = "none"
  \/ v.kind = "str" /\ v.s = <<>>
  \/ v.kind = "int" /\ v.n = 0

\* sanitize_filename: [exc, value]; re.sub raises TypeError on an int
SanitizeFilename(filename) ==
  IF Falsy(filename) THEN [exc |-> "", value |-> NoneVal]
  ELSE IF filename.kind # "str" THEN [exc |-> "TypeError", value |-> NoneVal]
  ELSE [exc |-> "",
        value |-> StrVal(RstripDot(Rstrip(Lstrip(Collapse(RemoveInvalid(filename.s))))))]

\* ------------------------------------------------- PARAM.SFO files of ISOs
RECURSIVE Concat(_)
Concat(ss) == IF ss = <<>> THEN <<>> ELSE ss[1] \o Concat(Tail(ss))

\* a file with the given records <<name_offset, type, len, capacity>>, pad
\* zero bytes after the index table, and the two blobs
MkSfo(magic, pad, recs, names, values) ==
  PackHeader(magic, <<1, 1, 0, 0>>,
             HeaderLen + RecLen * Len(recs) + pad,
             HeaderLen + RecLen * Len(recs) + pad + Len(names), Len(recs))
    \o Concat([k \in 1..Len(recs) |->
                 PackRecord(recs[k][1], recs[k][2], recs[k][3], recs[k][4], 0)])
    \o [j \in 1..pad |-> 0] \o names \o values

PsfMagic == <<0, 80, 83, 70>>
TitleName == TITLE \o <<0>>

\* one TITLE entry of the given type holding the given bytes
TitleFile(type, bytes) ==
  MkSfo(PsfMagic, 0, <<<<0, type, Len(bytes), Len(bytes)>>>>, TitleName, bytes)

SfoFiles ==
  { TitleFile(T_UTF8S, b) : b \in {<<65, 0>>, <<0, 0>>, <<65, 63>>, <<63, 46>>,
                                   <<0, 65>>, <<255, 0>>} }
  \cup { TitleFile(T_INT, b) : b \in {<<65, 0>>, <<0, 0>>, <<>>} }
  \cup { TitleFile(65535, <<65, 0>>) }
  \cup { \* no TITLE entry
         MkSfo(PsfMagic, 0, <<<<0, T_UTF8, 2, 2>>>>, <<65, 0>>, <<65, 0>>),
         \* a second entry after TITLE
         MkSfo(PsfMagic, 1, <<<<0, T_UTF8S, 2, 2>>, <<6, T_INT, 2, 2>>>>,
               TitleName \o <<65, 0>>, <<65, 0, 1, 0>>),
         \* index table longer than the header allows
         PackHeader(PsfMagic, <<1, 1, 0, 0>>, 20, 26, 1)
           \o PackRecord(0, T_UTF8S, 2, 2, 0) \o TitleName \o <<65, 0>>,
         \* cut inside the header and inside the index table
         SubSeq(TitleFile(T_UTF8S, <<65, 0>>), 1, 12),
         SubSeq(TitleFile(T_UTF8S, <<65, 0>>), 1, 30),
         \* cut inside the name and before the value
         SubSeq(TitleFile(T_UTF8S, <<65, 0>>), 1, 40),
         SubSeq(TitleFile(T_UTF8S, <<65, 0>>), 1, 42) }

\* ------------------------------------------------------------- rename_files
Unbound == [kind |-> "unbound", s |-> <<>>, n |-> 0]

\* what load_directories finds: ISOs in ISO and in PSP\GAME, directories in
\* PSP\GAME; two items of one directory have different names
ItemKinds == { [category |-> "ISO", name |-> "a.iso", directory |-> "ISO"],
               [category |-> "ISO", name |-> "b.iso", directory |-> "ISO"],
               [category |-> "ISO", name |-> "a.iso", directory |-> "GAME"],
               [category |-> "DIR", name |-> "a", directory |-> "GAME"] }

ItemLists ==
  { s \in UNION { [1..m -> ItemKinds] : m \in 0..MaxBatch } :
      \A j, k \in 1..Len(s) : j # k => s[j] # s[k] }

\* the classes "except Exception" catches: every exception raised here
Catches(x) ==
  x \in {"struct.error", "UnicodeDecodeError", "AssertionError", "ValueError",
         "TypeError", "OSError", "RuntimeError"}

Info(what) == <<"info", what, i>>
Warning(what) == <<"warning", what, i>>

\* log_warning_with_error(str, e)
LogWarningWithError(what, x) == <<Warning(x), Warning(what)>>

\* "continue": the next ISO, or the end of the loop
Continue ==
  /\ i' = i + 1
  /\ rpc' = IF i + 1 <= Len(isos) THEN "loop" ELSE "returned"

\* an exception raised in a try block of rename_files
Except(x, what) ==
  IF Catches(x)
  THEN log' = log \o LogWarningWithError(what, x) /\ Continue /\ rexc' = rexc
  ELSE log' = log /\ rpc' = "propagated" /\ i' = i /\ rexc' = x

\* line 45
StartRename ==
  /\ rpc = "start"
  /\ isos' = SelectSeq(items, LAMBDA item : item.category = "ISO")
  /\ i' = 1
  /\ rpc' = IF isos' # <<>> THEN "loop" ELSE "returned"
  /\ UNCHANGED <<pvars, items, title, sanitized_title, new_file_name, log, renamed,
                 rexc>>

\* lines 46-52
LoopHead ==
  /\ rpc = "loop"
  /\ log' = log \o (IF isos[i].name # isos[1].name THEN <<Info("separator")>> ELSE <<>>)
                \o <<Info("processing")>>
  /\ rpc' = "extract"
  /\ UNCHANGED <<pvars, items, isos, i, title, sanitized_title, new_file_name, renamed,
                 rexc>>

\* lines 55-62: extract_sfo raises, or writes the PARAM.SFO of the ISO
Extract ==
  /\ rpc = "extract"
  /\ \/ /\ \E x \in {"OSError", "RuntimeError"} : Except(x, "skip_extract")
        /\ UNCHANGED <<pvars>>
     \/ /\ \E f \in SfoFiles : file' = f
        /\ eof' = TRUE
        /\ log' = Append(log, Info("extracted"))
        /\ rpc' = "parse"
        /\ UNCHANGED <<pos, pc, exc, param, header, def_table, param_names,
                       param_values, e, sfo_data, result, i, rexc>>
  /\ UNCHANGED <<items, isos, title, sanitized_title, new_file_name, renamed>>

\* line 66: the call utils.parse_sfo(sfo_path, "TITLE")
CallParse ==
  /\ rpc = "parse"
  /\ pos' = 0
  /\ pc' = "header"
  /\ exc' = ""
  /\ param' = TITLE
  /\ header' = NoHeader
  /\ def_table' = <<>>
  /\ param_names' = <<>>
  /\ param_values' = <<>>
  /\ e' = 0
  /\ sfo_data' = <<>>
  /\ result' = NoneVal
  /\ rpc' = "in_parse"
  /\ UNCHANGED <<file, eof, items, isos, i, title, sanitized_title, new_file_name,
                 log, renamed, rexc>>

\* the locals of parse_sfo are gone and sfo_file is closed once it has returned
ParseGone ==
  /\ file' = <<>>
  /\ eof' = TRUE
  /\ pos' = 0
  /\ pc' = "idle"
  /\ exc' = ""
  /\ header' = NoHeader
  /\ def_table' = <<>>
  /\ param_names' = <<>>
  /\ param_values' = <<>>
  /\ e' = 0
  /\ sfo_data' = <<>>
  /\ result' = NoneVal
  /\ param' = param

\* lines 66-67: parse_sfo has returned
ParseReturned ==
  /\ rpc = "in_parse"
  /\ pc = "done"
  /\ title' = result
  /\ log' = Append(log, Info("parsed"))
  /\ rpc' = "sanitize"
  /\ ParseGone
  /\ UNCHANGED <<items, isos, i, sanitized_title, new_file_name, renamed, rexc>>

\* lines 68-70: parse_sfo has raised
ParseRaised ==
  /\ rpc = "in_parse"
  /\ pc = "raised"
  /\ Except(exc, "skip_parse")
  /\ ParseGone
  /\ UNCHANGED <<items, isos, title, sanitized_title, new_file_name, renamed>>

\* lines 73-78
Sanitize ==
  /\ rpc = "sanitize"
  /\ LET r == SanitizeFilename(title)
     IN  IF r.exc # ""
         THEN Except(r.exc, "skip_sanitize") /\ UNCHANGED sanitized_title
         ELSE /\ sanitized_title' = r.value
              /\ log' = Append(log, Info("sanitized"))
              /\ rpc' = "rename"
              /\ i' = i
              /\ rexc' = rexc
  /\ UNCHANGED <<pvars, items, isos, title, new_file_name, renamed>>

\* the except block of lines 87-89: its message formats new_file_name
RenameExcept(x, bound_name) ==
  IF bound_name = Unbound
  THEN log' = log /\ rpc' = "propagated" /\ i' = i /\ rexc' = "UnboundLocalError"
  ELSE Except(x, "skip_rename")

\* lines 81-89
Rename ==
  /\ rpc = "rename"
  /\ IF sanitized_title.kind # "str"
     THEN \* line 82: None + ".iso" is a TypeError, new_file_name is not assigned
          /\ RenameExcept("TypeError", new_file_name)
          /\ UNCHANGED <<new_file_name, renamed>>
     ELSE /\ new_file_name' = StrVal(sanitized_title.s \o IsoExt)
          /\ IF \E k \in 1..Len(sanitized_title.s) : sanitized_title.s[k] = 0
             THEN \* os.rename: embedded null byte
                  RenameExcept("ValueError", new_file_name') /\ UNCHANGED renamed
             ELSE \/ RenameExcept("OSError", new_file_name') /\ UNCHANGED renamed
                  \/ /\ renamed' = renamed \cup {i}
                     /\ log' = Append(log, Info("done"))
                     /\ Continue
                     /\ rexc' = rexc
  /\ UNCHANGED <<pvars, items, isos, title, sanitized_title>>

\* main, lines 144-148: an exception out of rename_files ends the program
MainExcept ==
  /\ rpc = "propagated"
  /\ log' = Append(log, <<"error", rexc, i>>)
  /\ rpc' = "exited"
  /\ UNCHANGED <<pvars, items, isos, i, title, sanitized_title, new_file_name, renamed,
                 rexc>>

Init ==
  /\ file = <<>>
  /\ eof = TRUE
  /\ pos = 0
  /\ pc = "idle"
  /\ exc = ""
  /\ param = TITLE
  /\ header = NoHeader
  /\ def_table = <<>>
  /\ param_names = <<>>
  /\ param_values = <<>>
  /\ e = 0
  /\ sfo_data = <<>>
  /\ result = NoneVal
  /\ items \in ItemLists
  /\ isos = <<>>
  /\ i = 0
  /\ rpc = "start"
  /\ title = Unbound
  /\ sanitized_title = Unbound
  /\ new_file_name = Unbound
  /\ log = <<>>
  /\ renamed = {}
  /\ rexc = ""

Next ==
  \/ StartRename
  \/ LoopHead
  \/ Extract
  \/ CallParse
  \/ ParseStep
  \/ ParseReturned
  \/ ParseRaised
  \/ Sanitize
  \/ Rename
  \/ MainExcept

Spec == Init /\ [][Next]_vars

\* ===================================================================== claims
\* the fields of the header and of entry j (1-based) as unpacked
NParams == header.n_params
NameTableBytes == header.data_table_start - header.name_table_start
NameOffset(j) == def_table[j][1]
ValueType(j) == def_table[j][2]
ValueLen(j) == def_table[j][3]
ValueCapacity(j) == def_table[j][4]
KnownTypes == {T_UTF8S, T_UTF8, T_INT}

Finished == pc \in {"done", "raised"}

RECURSIVE LenEnd(_)
LenEnd(j) == IF j = 0 THEN 0 ELSE LenEnd(j - 1) + ValueLen(j)

RECURSIVE CapEnd(_)
CapEnd(j) == IF j = 0 THEN 0 ELSE CapEnd(j - 1) + ValueCapacity(j)

\* the cursor after names k+1..n have been read from cursor c
RECURSIVE CursorAfterNames(_, _)
CursorAfterNames(c, k) ==
  IF k >= NParams THEN c
  ELSE LET len == IF k + 1 < NParams THEN NameOffset(k + 2) - NameOffset(k + 1)
                  ELSE NameTableBytes - NameOffset(k + 1)
       IN  CursorAfterNames(IF len < 0 THEN Len(file) ELSE Min(c + len, Len(file)), k + 1)

\* where the first value is read from
ValuesStart == CursorAfterNames(Min(header.name_table_start, Len(file)), 0)

\* the value of entry j decoded from the bytes between two offsets
ValueAt(j, from, to) == DecodeValue(ValueType(j), Slice(file, from, to)).value

InValues == pc \in {"values", "return", "done"}
ValuesRead == Len(param_values) - 2

\* the values of entries j..ValuesRead, each decoded from the size[k] bytes
\* that follow those of the entry before it, the first run starting at off
RECURSIVE ValuesInRuns(_, _, _)
ValuesInRuns(size, j, off) ==
  IF j > ValuesRead THEN <<>>
  ELSE <<ValueAt(j, off, off + size[j])>> \o ValuesInRuns(size, j + 1, off + size[j])

\* C1 (as claimed): the values are the runs of value_len[i] bytes at the
\* cumulative value_len offsets, and the cursor has advanced by value_len[i]
\* for every entry read.
C1_ValuesAtLenOffsets ==
  InValues =>
    LET start == ValuesStart
    IN  /\ pos = Min(start + LenEnd(ValuesRead), Len(file))
        /\ SubSeq(param_values, 3, Len(param_values))
             = ValuesInRuns([k \in 1..ValuesRead |-> ValueLen(k)], 1, start)

\* C1 (amended): the values are the runs of value_capacity[i] bytes (the
\* fourth field) at the cumulative value_capacity offsets, cut at the end of
\* the file, and the cursor has advanced by that much for every entry read,
\* whatever its type; value_len is not used.
C1_ValuesAtCapacityOffsets ==
  InValues =>
    LET start == ValuesStart
    IN  /\ pos = Min(start + CapEnd(ValuesRead), Len(file))
        /\ SubSeq(param_values, 3, Len(param_values))
             = ValuesInRuns([k \in 1..ValuesRead |-> ValueCapacity(k)], 1, start)

C1_Witness ==
  /\ pc = "done"
  /\ ~eof
  /\ NParams = 2
  /\ ValueLen(1) # ValueCapacity(1)
  /\ ValueCapacity(2) = 2
  /\ param_values[3] = StrVal(<<65, 65>>)
  /\ param_values[4] = IntVal(65)

\* ------------------------------------------------------------------- C3
\* a buffer laid out as the decoder reads it: non-negative padding, name
\* offsets starting at 0 and not decreasing, every value in a slot of
\* value_capacity bytes, nothing cut off
ValidBuffer ==
  /\ Len(file) >= HeaderLen
  /\ Len(def_table) = NParams
  /\ DefTablePadding(header) >= 0
  /\ NameTableBytes >= 0
  /\ NParams > 0 => NameOffset(1) = 0 /\ NameOffset(NParams) <= NameTableBytes
  /\ \A j \in 1..(NParams - 1) : NameOffset(j) <= NameOffset(j + 1)
  /\ Len(file) >= header.data_table_start + CapEnd(NParams)

\* the name of entry j, sliced out of the name table by its offsets
DeclaredName(j) ==
  RstripNul(Utf8Decode(
    Slice(file, header.name_table_start + NameOffset(j),
          header.name_table_start
            + (IF j < NParams THEN NameOffset(j + 1) ELSE NameTableBytes))).s)

DistinctNames ==
  /\ \A j, k \in 1..NParams : j # k => DeclaredName(j) # DeclaredName(k)
  /\ \A j \in 1..NParams : DeclaredName(j) \notin {SigKey, VerKey}

HeaderPairs ==
  <<<<SigKey, StrVal(Utf8Decode(header.magic).s)>>,
    <<VerKey, StrVal(JoinDot(header.ver))>>>>

\* C3 (as claimed): for a valid buffer with pairwise distinct names the
\* mapping holds exactly the n declared (name, value) pairs, in index-table
\* order, and nothing else.
C3_ExactlyDeclaredPairs ==
  (pc = "done" /\ ValidBuffer /\ DistinctNames) =>
    sfo_data = [j \in 1..NParams |->
                  <<DeclaredName(j),
                    ValueAt(j, header.data_table_start + LenEnd(j - 1),
                            header.data_table_start + LenEnd(j))>>]

\* C3 (amended): for a valid buffer with pairwise distinct names, whenever
\* the decoder builds the mapping, it holds "SFO File Signature" and "SFO
\* File Version" first and then the n declared pairs in index-table order,
\* the i-th name with the i-th value (the value_capacity[i] bytes of its
\* slot), names and string values stripped of trailing NULs.
C3_HeaderPairsThenDeclared ==
  (pc = "done" /\ ValidBuffer /\ DistinctNames) =>
    sfo_data = HeaderPairs
               \o [j \in 1..NParams |->
                     <<DeclaredName(j),
                       ValueAt(j, header.data_table_start + CapEnd(j - 1),
                               header.data_table_start + CapEnd(j))>>]

C3_Witness ==
  /\ pc = "done"
  /\ ValidBuffer
  /\ DistinctNames
  /\ NParams = 2
  /\ Len(sfo_data) = 4
  /\ ValueLen(2) # ValueCapacity(2)
  /\ sfo_data[3] = <<<<65>>, StrVal(<<>>)>>
  /\ sfo_data[4] = <<<<>>, IntVal(65 * 256)>>
  /\ SubSeq(file, Len(file) - 3, Len(file)) = <<65, 0, 0, 65>>

\* ------------------------------------------------------------------- C6
NegativePadding ==
  /\ pc \notin {"header", "layout"}
  /\ Len(file) >= HeaderLen
  /\ DefTablePadding(header) < 0

\* C6 (as claimed): a buffer of at least 20 bytes whose header has
\* key_table_offset - 20 - 16*entry_count < 0 fails with the malformed-layout
\* error (the failed assertion) and returns no mapping.
C6_NegativePaddingIsMalformed ==
  NegativePadding => pc = "raised" /\ exc = "AssertionError" /\ sfo_data = <<>>

\* C6 (amended): such a buffer always fails and returns no mapping; the
\* error is the failed assertion, unless the four magic bytes are not valid
\* UTF-8, which raises UnicodeDecodeError before the padding is checked.
C6_NegativePaddingFails ==
  NegativePadding =>
    /\ pc = "raised"
    /\ sfo_data = <<>>
    /\ result = NoneVal
    /\ exc = IF Utf8Decode(header.magic).ok THEN "AssertionError"
             ELSE "UnicodeDecodeError"

C6_Witness ==
  /\ pc = "raised"
  /\ exc = "AssertionError"
  /\ Len(file) = HeaderLen
  /\ NParams = 2
  /\ DefTablePadding(header) = -1

\* ------------------------------------------------------------------- C7
ShortOfIndex ==
  /\ Finished
  /\ eof
  /\ Len(file) < HeaderLen \/ Len(file) < HeaderLen + RecLen * NParams

\* C7 (as claimed): a buffer shorter than the header, or ending before all
\* entry_count index records, fails with the truncated-input error
\* (struct.error) and returns no mapping.
C7_ShortIsTruncatedInput ==
  ShortOfIndex => pc = "raised" /\ exc = "struct.error" /\ sfo_data = <<>>

\* C7 (amended): such a buffer always fails and returns no mapping, and no
\* short header or record is unpacked.  The error is struct.error when the
\* header is short; otherwise UnicodeDecodeError when the magic is not valid
\* UTF-8, else the failed assertion when the padding is negative (both are
\* checked before the index table is read), else struct.error.
C7_ShortFails ==
  ShortOfIndex =>
    /\ pc = "raised"
    /\ sfo_data = <<>>
    /\ result = NoneVal
    /\ IF Len(file) < HeaderLen THEN exc = "struct.error" /\ header = NoHeader
       ELSE IF ~Utf8Decode(header.magic).ok THEN exc = "UnicodeDecodeError"
       ELSE IF DefTablePadding(header) < 0 THEN exc = "AssertionError"
       ELSE /\ exc = "struct.error"
            /\ Len(def_table) = (Len(file) - HeaderLen) \div RecLen

C7_Witness ==
  /\ pc = "raised"
  /\ exc = "struct.error"
  /\ eof
  /\ NParams = 2
  /\ Len(file) = HeaderLen + RecLen + 7
  /\ Len(def_table) = 1

\* ------------------------------------------------------------------- C9
\* C9: an entry of a type other than 0x0204, 0x0004, 0x0404 gets the value
\* None and raises nothing; its value_capacity bytes are consumed, so every
\* later entry is decoded from the same bytes as it would be after an entry
\* of a known type and the same size.
C9_UnknownTypeIsAbsent ==
  /\ InValues =>
       \A j \in 1..ValuesRead :
         ValueType(j) \notin KnownTypes =>
           LET start == ValuesStart
           IN  /\ param_values[2 + j] = NoneVal
               /\ pos >= Min(start + CapEnd(j), Len(file))
               /\ \A k \in (j + 1)..ValuesRead :
                    param_values[2 + k] =
                      ValueAt(k, start + CapEnd(k - 1), start + CapEnd(k))
  /\ (pc = "raised" /\ Len(def_table) > 0 /\ Len(param_names) = 2 + Len(def_table)) =>
       ValueType(e + 1) \in KnownTypes

C9_Witness ==
  /\ pc = "done"
  /\ NParams = 2
  /\ ValueType(1) = 65535
  /\ ValueCapacity(1) = 2
  /\ SubSeq(file, Len(file) - 3, Len(file)) = <<65, 65, 65, 0>>
  /\ param_values[3] = NoneVal
  /\ param_values[4] = StrVal(<<65>>)

\* ------------------------------------------------------------ C4, C5, C8
\* C4: a name whose computed length exceeds the bytes left in the buffer
\* makes the decode fail; it is never read short and decoding continued.
C4_ShortNameFails ==
  [][(pc = "names"
        /\ NameLen(def_table, e, NameTableBytes) >= 0
        /\ pos' - pos < NameLen(def_table, e, NameTableBytes))
       => pc' = "raised"]_vars

\* C5: a negative computed name length makes the decode fail; it is never
\* passed to the read as a byte count.
C5_NegativeNameLenFails ==
  [][(pc = "names" /\ NameLen(def_table, e, NameTableBytes) < 0)
       => (pc' = "raised" /\ pos' = pos /\ file' = file)]_vars

\* C8: for an entry of type 0x0404 the value is the little-endian unsigned
\* integer of the whole byte run read, of any length, 0 included.
C8_IntIsLittleEndian ==
  [][(pc = "values" /\ ValueType(e + 1) = T_INT)
       => (/\ pc' # "raised"
           /\ param_values' =
                Append(param_values, IntVal(LE(SubSeq(file', pos + 1, pos')))))]_vars

\* ------------------------------------------------------------- C2, C10
Terminal == rpc \in {"returned", "propagated", "exited"}
Logged(entry) == \E m \in 1..Len(log) : log[m] = entry
Processed(k) == Logged(<<"info", "processing", k>>)
DecodeFailed(k) == Logged(<<"warning", "skip_parse", k>>)

\* C2: an ISO whose PARAM.SFO decode raises is logged and not renamed, and
\* every later ISO of the batch is still processed.
C2_DecodeErrorIsIsolated ==
  /\ (rpc = "in_parse" /\ pc = "raised") => i \notin renamed
  /\ \A k \in 1..Len(isos) :
       DecodeFailed(k) =>
         /\ k \notin renamed
         /\ Terminal => \A j \in (k + 1)..Len(isos) : Processed(j)

\* C10: rename_files never propagates an exception and visits every ISO of
\* the batch, whichever step fails.
C10_NeverPropagates ==
  /\ rpc \notin {"propagated", "exited"}
  /\ rexc = ""
  /\ rpc = "returned" => \A k \in 1..Len(isos) : Processed(k)

====
